---- MODULE Spec2Model ----
(***************************************************************************)
(* Training-plan parsing core of the coaching backend: the plan            *)
(* materializers (PlanParserService.save_parsed_plan,                      *)
(* AICoachService.generate_training_plan), the image upload / image-hash   *)
(* cache path (api.plan_parser.parse_plan_from_image,                      *)
(* PlanParserService.parse_plan_from_image) and the heuristic text parser  *)
(* (MLPlanParser).                                                         *)
(*                                                                         *)
(* Dates are day numbers.  A JSON dictionary is a record whose fields may  *)
(* hold Absent (key missing, dict.get falls back to its default) or None   *)
(* (JSON null, on which str methods raise AttributeError).  The trainings  *)
(* table is a bag of rows: rows differ only by their autoincrement id,     *)
(* which no operation below reads.                                         *)
(***************************************************************************)
EXTENDS Integers, Sequences, FiniteSets, Bags, TLC

VARIABLES
    today,           \* the server's current date (datetime.now().date())
    trainings,       \* committed rows of table Training (a bag)
    training_plans,  \* committed rows of table TrainingPlan (a bag of user ids)
    calls,           \* requests served so far
    last,            \* the last completed materializer call, with its created_trainings
    parsed_plans,    \* committed rows of table ParsedTrainingPlan, oldest first
    reqs,            \* the /upload-image requests, by arrival number
    parser,          \* the call of MLPlanParser.parse_plan: its argument and its result
    verifier,        \* the call of MLPlanParser.verify_parsed_plan: argument and result
    workout_call,    \* the parse of one workout text: classification, distance, result
    interval_call,   \* the distance computed for one interval description
    sessions,        \* the generate_training_plan calls in flight, one database session each
    week_call        \* the parse of one week segment: the workout texts and the week

\* ---------------------------------------------------------------- bounds
MaxToday == 1          \* days the clock may advance
MaxCalls == 2          \* requests served in one behaviour
MaxLen == 4            \* tokens of a plan text handed to the heuristic parser

\* ---------------------------------------------------------------- values
Absent == "<absent>"
None == "<None>"

Users == {1, 2}

\* dict.get(key, default)
Get(value, default) == IF value = Absent THEN default ELSE value

\* str.lower() on the strings that occur as day names and workout types
Lower(s) ==
    CASE s = "Monday" -> "monday"
      [] s = "Sunday" -> "sunday"
      [] s = "SUNDAY" -> "sunday"
      [] s = "Funday" -> "funday"
      [] s = "Easy Run" -> "easy run"
      [] s = "Intervals" -> "intervals"
      [] s = "Hills" -> "hills"
      [] s = "Rest" -> "rest"
      [] s = "REST" -> "rest"
      [] OTHER -> s

\* the fallback of days.get set to the last day of the week
_get_day_offset_DefaultSunday(day_name) ==
    LET d == Lower(day_name) IN
    CASE d = "monday" -> 0
      [] d = "tuesday" -> 1
      [] d = "wednesday" -> 2
      [] d = "thursday" -> 3
      [] d = "friday" -> 4
      [] d = "saturday" -> 5
      [] OTHER -> 6

\* days.get(day_name.lower(), 0)
_get_day_offset(day_name) ==
    LET d == Lower(day_name) IN
    CASE d = "monday" -> 0
      [] d = "tuesday" -> 1
      [] d = "wednesday" -> 2
      [] d = "thursday" -> 3
      [] d = "friday" -> 4
      [] d = "saturday" -> 5
      [] d = "sunday" -> 6
      [] OTHER -> 0

WeekdayNames == {"monday", "tuesday", "wednesday", "thursday", "friday", "saturday", "sunday"}

\* workout_type_mapping.get(workout_type, WorkoutType.EASY_RUN) of save_parsed_plan
SaveTypeMapping(t) ==
    CASE t = "Easy Run" -> "easy_run"
      [] t = "Long Run" -> "long_run"
      [] t = "Tempo" -> "tempo"
      [] t = "Intervals" -> "intervals"
      [] t = "Hills" -> "hills"
      [] t = "Recovery" -> "recovery"
      [] t = "Rest" -> "rest"
      [] OTHER -> "easy_run"

\* workout_type_mapping.get(workout_type, "easy_run") of generate_training_plan
GenerateTypeMapping(t) ==
    CASE t = "Easy Run" -> "easy_run"
      [] t = "Long Run" -> "long_run"
      [] t = "Tempo" -> "tempo"
      [] t = "Intervals" -> "intervals"
      [] t = "Rest" -> "rest"
      [] OTHER -> "easy_run"

\* ---------------------------------------------------------------- plans
Workout(d, t) == [day |-> d, workout_type |-> t]

\* "week_number" of a week: <<>> when the key is missing, else <<n>>
Week(n, ws) == [week_number |-> n, workouts |-> ws]

\* week_data.get("week_number", default)
GetNumber(value, default) == IF value = <<>> THEN default ELSE value[1]

\* the weeks a plan is made of: defaulted keys, two workouts on one date and a Rest
\* day; a week numbered 2 with an unknown day name, an upper-case weekday and an
\* upper-case REST; a week whose second workout has a null day name
Weeks ==
    { Week(<<>>, <<Workout(Absent, Absent), Workout("Monday", "Intervals"),
                   Workout("Sunday", "Rest")>>),
      Week(<<2>>, <<Workout("Funday", "Hills"), Workout("SUNDAY", "Easy Run"),
                    Workout("Monday", "REST")>>),
      Week(<<1>>, <<Workout("Sunday", "Easy Run"), Workout(None, "Easy Run")>>) }

\* the lengths of weekly_structure
PlanLengths == {0, 1, 2}

\* plan_data: the parsed plan dictionary (only weekly_structure is iterated)
Plans == [weekly_structure : UNION {[1..n -> Weeks] : n \in PlanLengths}]

\* the loop order of "for week_data in weekly_structure: for workout in workouts":
\* each item keeps the 0-based position w of its week and the week's week_number
RECURSIVE FlattenFrom(_, _)
FlattenFrom(ws, i) ==
    IF i > Len(ws) THEN <<>>
    ELSE [k \in 1..Len(ws[i].workouts) |->
            [w |-> i - 1,
             week_number |-> GetNumber(ws[i].week_number, 1),
             day |-> ws[i].workouts[k].day,
             workout_type |-> ws[i].workouts[k].workout_type]]
         \o FlattenFrom(ws, i + 1)

Flatten(plan_data) == FlattenFrom(plan_data.weekly_structure, 1)

\* the Rest test without lower(): "REST" is no longer a Rest day
IsRest_CaseSensitive(item) == Get(item.workout_type, "") = "Rest"

\* workout.get("workout_type", "").lower() == "rest"
IsRest(item) == Lower(Get(item.workout_type, "")) = "rest"

\* the week offset taken as week_number weeks instead of week_number - 1
WorkoutDate_NoMinusOne(start_date, item) ==
    start_date + 7 * item.week_number + _get_day_offset(Get(item.day, "Monday"))

\* week_start + timedelta(days=day_offset), week_start = start_date + timedelta(weeks=week_number - 1)
WorkoutDate(start_date, item) ==
    start_date + 7 * (item.week_number - 1) + _get_day_offset(Get(item.day, "Monday"))

\* a str method is called on None: workout_type.lower() or day_name.lower()
RaisesAttributeError(item) ==
    \/ item.workout_type = None
    \/ (~IsRest(item) /\ item.day = None)

Training(user_id, date, type, title, plan_source) ==
    [user_id |-> user_id, date |-> date, type |-> type, title |-> title,
     plan_source |-> plan_source]

Created(item, date) ==
    [date |-> date, day |-> item.day, workout_type |-> item.workout_type,
     w |-> item.w, week_number |-> item.week_number]

RECURSIVE SeqToBag(_)
SeqToBag(s) == IF s = <<>> THEN EmptyBag ELSE SetToBag({Head(s)}) (+) SeqToBag(Tail(s))

\* the look-up without autoflush: only committed rows are seen
ExistingWorkout_CommittedOnly(rows, pending, user_id, date) ==
    \E t \in BagToSet(rows) : t.user_id = user_id /\ t.date = date

\* session.exec(select(Training).where(user_id == .., date == ..)).first(): with the
\* autoflush of sqlmodel.Session the rows added earlier in the batch are seen too
ExistingWorkout(rows, pending, user_id, date) ==
    \/ \E t \in BagToSet(rows) : t.user_id = user_id /\ t.date = date
    \/ \E k \in 1..Len(pending) : pending[k].user_id = user_id /\ pending[k].date = date

\* the loop body of save_parsed_plan, from item i on: no look-up of existing rows
RECURSIVE SaveLoop(_, _, _, _, _)
SaveLoop(items, i, user_id, start_date, acc) ==
    IF i > Len(items) THEN acc
    ELSE LET item == items[i] IN
         IF RaisesAttributeError(item) THEN [acc EXCEPT !.raised = TRUE]
         ELSE IF IsRest(item) THEN SaveLoop(items, i + 1, user_id, start_date, acc)
         ELSE LET date == WorkoutDate(start_date, item)
                  row == Training(user_id, date,
                                  SaveTypeMapping(Get(item.workout_type, "Easy Run")),
                                  Get(item.workout_type, "Easy Run"), "coach_photo")
              IN SaveLoop(items, i + 1, user_id, start_date,
                          [acc EXCEPT !.pending = Append(@, row),
                                      !.created = Append(@, Created(item, date))])

\* the loop body of generate_training_plan, from item i on
RECURSIVE GenerateLoop(_, _, _, _, _, _)
GenerateLoop(items, i, rows, user_id, start_date, acc) ==
    IF i > Len(items) THEN acc
    ELSE LET item == items[i] IN
         IF RaisesAttributeError(item) THEN [acc EXCEPT !.raised = TRUE]
         ELSE IF IsRest(item) THEN GenerateLoop(items, i + 1, rows, user_id, start_date, acc)
         ELSE LET date == WorkoutDate(start_date, item) IN
              IF ExistingWorkout(rows, acc.pending, user_id, date)
              THEN GenerateLoop(items, i + 1, rows, user_id, start_date, acc)
              ELSE LET row == Training(user_id, date,
                                       GenerateTypeMapping(Get(item.workout_type, "Easy Run")),
                                       Get(item.workout_type, "Easy Run"), "ai_generated")
                   IN GenerateLoop(items, i + 1, rows, user_id, start_date,
                                   [acc EXCEPT !.pending = Append(@, row),
                                               !.created = Append(@, Created(item, date))])

EmptyBatch == [pending |-> <<>>, created |-> <<>>, raised |-> FALSE]

\* ---------------------------------------------------------------- image upload
\* the size ceiling of an upload, 10 * 1024 * 1024 bytes
MaxUploadBytes == 10485760

\* image payloads: whether PIL opens them, and the mode PIL reports
Image(id, decodable, mode) == [id |-> id, decodable |-> decodable, mode |-> mode, reencoded |-> FALSE]

\* an upload: file.content_type, file.size, the bytes file.read() returns
File(content_type, size, data) == [content_type |-> content_type, size |-> size, data |-> data]

\* two uploads the route accepts, and one upload failing each of its checks
Files ==
    { File("image/png", MaxUploadBytes, Image(1, TRUE, "RGB")),
      File("image/png", MaxUploadBytes, Image(2, TRUE, "RGBA")),
      File(None, MaxUploadBytes, Image(1, TRUE, "RGB")),
      File("text/plain", MaxUploadBytes, Image(1, TRUE, "RGB")),
      File("image/png", MaxUploadBytes + 1, Image(1, TRUE, "RGB")),
      File("image/png", MaxUploadBytes, Image(3, FALSE, "RGB")) }

\* content_type.startswith('image/')
StartsWithImage(content_type) == content_type \in {"image/png", "image/jpeg", "image/gif", "image/webp"}

\* img.convert("RGB") saved as JPEG: other bytes than the upload
ReencodeJpeg(data) == [data EXCEPT !.mode = "RGB", !.reencoded = TRUE]

\* base64.b64encode(...).decode('utf-8') and base64.b64decode
B64Encode(data) == <<"base64", data>>
B64Decode(text) == text[2]

\* the checks of the /upload-image route before the parser is called, without the test
\* that PIL opens the payload
ValidateUpload_NoDecodeCheck(file) ==
    IF file.content_type = None \/ ~StartsWithImage(file.content_type)
    THEN [status |-> 400, image_data |-> file.data]
    ELSE IF file.size # 0 /\ file.size > MaxUploadBytes
    THEN [status |-> 400, image_data |-> file.data]
    ELSE IF file.data.decodable /\ file.data.mode \in {"RGBA", "P"}
    THEN [status |-> 0, image_data |-> ReencodeJpeg(file.data)]
    ELSE [status |-> 0, image_data |-> file.data]

\* the checks of the /upload-image route before the parser is called: status 400 on
\* rejection, else 0 and the bytes handed on
ValidateUpload(file) ==
    IF file.content_type = None \/ ~StartsWithImage(file.content_type)
    THEN [status |-> 400, image_data |-> file.data]
    ELSE IF file.size # 0 /\ file.size > MaxUploadBytes
    THEN [status |-> 400, image_data |-> file.data]
    ELSE IF ~file.data.decodable
    THEN [status |-> 400, image_data |-> file.data]
    ELSE IF file.data.mode \in {"RGBA", "P"}
    THEN [status |-> 0, image_data |-> ReencodeJpeg(file.data)]
    ELSE [status |-> 0, image_data |-> file.data]

\* the JSON documents the vision model may answer with: one that fits the prompt's
\* format, one without "weekly_structure", one whose distances are not numbers
Doc(schema, ws) == [schema |-> schema, weekly_structure |-> ws]

Docs ==
    {Doc("ok", p.weekly_structure) : p \in {q \in Plans : Len(q.weekly_structure) = 1}}
    \cup {Doc("missing_weekly_structure", <<>>)}
    \cup {Doc("non_numeric_distance", p.weekly_structure) :
            p \in {q \in Plans : Len(q.weekly_structure) = 2 /\ q.weekly_structure[1] = q.weekly_structure[2]
                                   /\ q.weekly_structure[1].week_number = <<>>}}

NoDoc == Doc("none", <<>>)

\* what the awaited chat-completion call yields: the call raises, the content is not
\* JSON, or the content is a JSON document
VisionOutcomes ==
    [kind : {"api_error", "bad_json"}, doc : {NoDoc}] \cup [kind : {"json"}, doc : Docs]

NoOutcome == [kind |-> "none", doc |-> NoDoc]

\* _analyze_plan_image with json.loads errors swallowed
_analyze_plan_image_SwallowJson(outcome) ==
    IF outcome.kind = "api_error"
    THEN [raised |-> TRUE, analysis |-> NoDoc]
    ELSE [raised |-> FALSE, analysis |-> outcome.doc]

\* PlanParserService._analyze_plan_image: json.loads(content), or the raised exception
_analyze_plan_image(outcome) ==
    IF outcome.kind = "json"
    THEN [raised |-> FALSE, analysis |-> outcome.doc]
    ELSE [raised |-> TRUE, analysis |-> NoDoc]

\* analysis.get("weekly_structure", [])
GetWeeklyStructure(doc) ==
    IF doc.schema = "missing_weekly_structure" THEN <<>> ELSE doc.weekly_structure

\* PlanStorageService._generate_image_hash: a deterministic content hash
_generate_image_hash(image_bytes) == <<"hash", image_bytes>>

\* PlanStorageService.get_plan_by_image_hash: the number of the user's stored plan
\* with this hash, 0 when there is none
get_plan_by_image_hash(plans, user_id, image_hash) ==
    LET hits == {k \in 1..Len(plans) :
                    plans[k].user_id = user_id /\ plans[k].original_image_hash = image_hash}
    IN IF hits = {} THEN 0 ELSE CHOOSE k \in hits : \A j \in hits : k <= j

\* PlanStorageService.store_parsed_plan: the ParsedTrainingPlan row of an analysis
store_parsed_plan(user_id, plan_data, image_bytes, start_date) ==
    [user_id |-> user_id, original_image_hash |-> _generate_image_hash(image_bytes),
     plan_data |-> plan_data, start_date |-> start_date]

\* the materializer without its look-up of existing rows
RECURSIVE create_training_workouts_NoLookup(_, _, _, _, _)
create_training_workouts_NoLookup(items, i, rows, user_id, start_date) ==
    IF i > Len(items) THEN rows
    ELSE LET item == items[i]
             name == Get(item.day, "Monday")
         IN IF item.workout_type = None \/ IsRest(item) \/ name = None
               \/ Lower(name) \notin WeekdayNames
            THEN create_training_workouts_NoLookup(items, i + 1, rows, user_id, start_date)
            ELSE LET date == start_date + 7 * item.w + _get_day_offset(name) IN
                 create_training_workouts_NoLookup(items, i + 1,
                     rows (+) SetToBag({Training(user_id, date,
                                  SaveTypeMapping(Get(item.workout_type, "Easy Run")),
                                  Get(item.workout_type, "Easy Run"), "coach_photo")}),
                     user_id, start_date)

\* PlanStorageService.create_training_workouts_from_plan, from item i on: for week
\* index w and each non-Rest workout the date is start_date + 7*w + weekday offset; a
\* workout with an existing (user, date) row or an unparseable day name is skipped
RECURSIVE create_training_workouts(_, _, _, _, _)
create_training_workouts(items, i, rows, user_id, start_date) ==
    IF i > Len(items) THEN rows
    ELSE LET item == items[i]
             name == Get(item.day, "Monday")
         IN IF item.workout_type = None \/ IsRest(item) \/ name = None
               \/ Lower(name) \notin WeekdayNames
            THEN create_training_workouts(items, i + 1, rows, user_id, start_date)
            ELSE LET date == start_date + 7 * item.w + _get_day_offset(name) IN
                 IF ExistingWorkout(rows, <<>>, user_id, date)
                 THEN create_training_workouts(items, i + 1, rows, user_id, start_date)
                 ELSE create_training_workouts(items, i + 1,
                          rows (+) SetToBag({Training(user_id, date,
                                       SaveTypeMapping(Get(item.workout_type, "Easy Run")),
                                       Get(item.workout_type, "Easy Run"), "coach_photo")}),
                          user_id, start_date)

\* the Training rows after create_training_workouts_from_plan(plan, user_id, db)
create_training_workouts_from_plan(plan, rows, user_id) ==
    create_training_workouts(
        FlattenFrom(GetWeeklyStructure(plan.plan_data), 1), 1, rows, user_id, plan.start_date)

NoFile == File(None, 0, Image(0, FALSE, "RGB"))

NoResponse == [cached |-> FALSE, duration_weeks |-> 0, weekly_structure |-> <<>>]

\* a request that has not arrived
IdleReq ==
    [pc |-> "idle", user_id |-> 0, file |-> NoFile, image_data |-> <<"base64", NoFile.data>>,
     status |-> 0, looked_up |-> FALSE, vision_calls |-> 0, prior_success |-> FALSE,
     outcome |-> NoOutcome, response |-> NoResponse]

\* ------------------------------------------------------------ heuristic parser
\* A plan text is a sequence of tokens separated by white space.
Chart == "[chart]"        \* the character U+1F4CA that opens a week header
Newline == "[newline]"

Alphabet == {Chart, "Week", "1", "Monday", "Sunday", "easy", "Total Distance", "km"}

Texts == UNION {[1..n -> Alphabet] : n \in 0..MaxLen}

DayNames == {"Monday", "Tuesday", "Wednesday", "Thursday", "Friday", "Saturday", "Sunday"}

\* \d+ and its value
IsNumber(token) == token \in {"1", "12"}
NumberOf(token) == IF token = "12" THEN 12 ELSE 1

\* the week pattern matches at i: the chart character, "Week", digits
HeaderAt(text, i) ==
    i + 2 <= Len(text) /\ text[i] = Chart /\ text[i + 1] = "Week" /\ IsNumber(text[i + 2])

\* the lookahead of the week pattern: the chart character and "Week", or the end
RECURSIVE WeekEnd(_, _)
WeekEnd(text, j) ==
    IF j > Len(text) \/ (j + 1 <= Len(text) /\ text[j] = Chart /\ text[j + 1] = "Week")
    THEN j
    ELSE WeekEnd(text, j + 1)

\* re.findall(week_pattern, plan_text, re.DOTALL) from position i on
RECURSIVE FindWeeks(_, _)
FindWeeks(text, i) ==
    IF i > Len(text) THEN <<>>
    ELSE IF HeaderAt(text, i)
    THEN LET j == WeekEnd(text, i + 3) IN <<SubSeq(text, i, j - 1)>> \o FindWeeks(text, j)
    ELSE FindWeeks(text, i + 1)

\* a splitter that takes a text without week header as one week
_split_into_weeks_WholeText(plan_text) ==
    IF FindWeeks(plan_text, 1) = <<>> THEN <<plan_text>> ELSE FindWeeks(plan_text, 1)

\* MLPlanParser._split_into_weeks
_split_into_weeks(plan_text) == FindWeeks(plan_text, 1)

\* doc.sents: the sentences the statistical segmenter cuts the text into, given the
\* positions after which it cuts
RECURSIVE Sentences(_, _, _)
Sentences(text, cuts, s) ==
    IF s > Len(text) THEN <<>>
    ELSE LET later == {c \in cuts : c >= s}
             e == IF later = {} THEN Len(text) ELSE CHOOSE c \in later : \A d \in later : c <= d
         IN <<SubSeq(text, s, e)>> \o Sentences(text, cuts, e + 1)

\* re.search(r'Week\s*\d+', sent.text)
HasWeekNumber(sent) == \E i \in 1..(Len(sent) - 1) : sent[i] = "Week" /\ IsNumber(sent[i + 1])

\* MLPlanParser._extract_plan_title
_extract_plan_title(plan_text, cuts) ==
    LET sents == Sentences(plan_text, cuts, 1)
        free == {k \in 1..Len(sents) : ~HasWeekNumber(sents[k])}
    IN IF free = {} THEN <<"Training Plan">>
       ELSE sents[CHOOSE k \in free : \A j \in free : k <= j]

\* MLPlanParser._extract_total_distance, in hundredths of a km
_extract_total_distance(week_text) ==
    LET hits == {i \in 1..(Len(week_text) - 2) :
                    /\ week_text[i] = "Total Distance" /\ IsNumber(week_text[i + 1])
                    /\ week_text[i + 2] = "km"}
    IN IF hits = {} THEN 0
       ELSE 100 * NumberOf(week_text[1 + CHOOSE i \in hits : \A j \in hits : i <= j])

\* MLPlanParser._split_into_workouts: re.findall with one capturing group returns the
\* group of each match, the weekday name
_split_into_workouts(week_text) ==
    LET days == SelectSeq(week_text, LAMBDA token : token \in DayNames)
    IN [k \in 1..Len(days) |-> <<days[k]>>]

\* self.workout_patterns, in declaration order
PatternKeys == <<"easy_run", "intervals", "long_run">>

Keywords(key) ==
    CASE key = "easy_run" -> {"easy", "recovery", "steady", "conversational"}
      [] key = "intervals" -> {"intervals", "repeats", "sprints", "fartlek"}
      [] key = "long_run" -> {"long", "endurance", "distance"}

\* np.mean(pattern['distance_range']), in hundredths of a km
RangeMidpoint(key) ==
    CASE key = "easy_run" -> 650
      [] key = "intervals" -> 110
      [] key = "long_run" -> 2000

\* workout_type.replace('_', ' ').title()
TitleCase(key) ==
    CASE key = "easy_run" -> "Easy Run"
      [] key = "intervals" -> "Intervals"
      [] key = "long_run" -> "Long Run"

\* workout_type.lower().replace(' ', '_')
PatternKey(workout_type) ==
    CASE workout_type = "Easy Run" -> "easy_run"
      [] workout_type = "Intervals" -> "intervals"
      [] workout_type = "Long Run" -> "long_run"
      [] OTHER -> workout_type

\* the occurrences of a type's keywords in the text: the numerator of the cosine
\* similarity of the two TF-IDF vectors
Overlap(text, key) == Cardinality({i \in 1..Len(text) : Lower(text[i]) \in Keywords(key)})

\* the loop of _classify_workout_type from pattern k on; similarities are compared
\* by their squares, overlap^2 / number of keywords
RECURSIVE ClassifyFrom(_, _, _, _, _)
ClassifyFrom(text, k, best_type, best_overlap, best_size) ==
    IF k > Len(PatternKeys) THEN best_type
    ELSE LET key == PatternKeys[k]
             overlap == Overlap(text, key)
             size == Cardinality(Keywords(key))
         IN IF overlap * overlap * best_size > best_overlap * best_overlap * size
            THEN ClassifyFrom(text, k + 1, TitleCase(key), overlap, size)
            ELSE ClassifyFrom(text, k + 1, best_type, best_overlap, best_size)

\* _classify_workout_type whose default is the last type of the registry
_classify_workout_type_DefaultLast(workout_text) == ClassifyFrom(workout_text, 1, "Long Run", 0, 1)

\* the numbers, in the registry, of the types most similar to the text
MostSimilar(text) ==
    {k \in DOMAIN PatternKeys :
        \A j \in DOMAIN PatternKeys :
            Overlap(text, PatternKeys[k]) * Overlap(text, PatternKeys[k])
                    * Cardinality(Keywords(PatternKeys[j]))
              >= Overlap(text, PatternKeys[j]) * Overlap(text, PatternKeys[j])
                    * Cardinality(Keywords(PatternKeys[k]))}

\* _classify_workout_type with >= for >: of the most similar types the last one wins
_classify_workout_type_LastWins(workout_text) ==
    IF \A k \in DOMAIN PatternKeys : Overlap(workout_text, PatternKeys[k]) = 0
    THEN "Easy Run"
    ELSE TitleCase(PatternKeys[CHOOSE k \in MostSimilar(workout_text) :
                                  \A j \in MostSimilar(workout_text) : j <= k])

\* MLPlanParser._classify_workout_type
_classify_workout_type(workout_text) == ClassifyFrom(workout_text, 1, "Easy Run", 0, 1)

\* re.search(r'(\d+(?:\.\d+)?)\s*<unit>', text, re.IGNORECASE): the first number
\* followed by a token that begins with the unit, 0 when there is none
UnitMatch(text, units) ==
    LET hits == {i \in 1..(Len(text) - 1) : IsNumber(text[i]) /\ text[i + 1] \in units}
    IN IF hits = {} THEN 0 ELSE CHOOSE i \in hits : \A j \in hits : i <= j

\* MLPlanParser._extract_distance, in hundredths of a km: <<>> is None; raised when
\* the look-up of the type's pattern has no such key
_extract_distance(workout_text, workout_type) ==
    LET miles == UnitMatch(workout_text, {"miles", "mile", "Miles"})
        km == UnitMatch(workout_text, {"km", "KM"})
        m == UnitMatch(workout_text, {"m", "miles", "mile", "Miles", "Monday"})
        keys == {PatternKeys[k] : k \in DOMAIN PatternKeys}
    IN IF miles # 0
       THEN [raised |-> FALSE, distance |-> <<(NumberOf(workout_text[miles]) * 160934 + 500) \div 1000>>]
       ELSE IF km # 0
       THEN [raised |-> FALSE, distance |-> <<NumberOf(workout_text[km]) * 100>>]
       ELSE IF m # 0
       THEN [raised |-> FALSE, distance |-> <<(NumberOf(workout_text[m]) + 5) \div 10>>]
       ELSE IF workout_type \in keys
       THEN IF PatternKey(workout_type) \in keys
            THEN [raised |-> FALSE, distance |-> <<RangeMidpoint(PatternKey(workout_type))>>]
            ELSE [raised |-> TRUE, distance |-> <<>>]
       ELSE [raised |-> FALSE, distance |-> <<>>]

\* text.strip()
RECURSIVE Strip(_)
Strip(text) ==
    IF text = <<>> THEN text
    ELSE IF Head(text) = Newline THEN Strip(Tail(text))
    ELSE IF text[Len(text)] = Newline THEN Strip(SubSeq(text, 1, Len(text) - 1))
    ELSE text

\* re.sub(r'^(<first>).*?\n', '', text): drop the first line when it opens with one of
\* the tokens
DropFirstLine(text, first) ==
    LET ends == {i \in 1..Len(text) : text[i] = Newline}
    IN IF text # <<>> /\ text[1] \in first /\ ends # {}
       THEN SubSeq(text, 1 + CHOOSE i \in ends : \A j \in ends : i <= j, Len(text))
       ELSE text

\* MLPlanParser._extract_description
_extract_description(workout_text) ==
    Strip(DropFirstLine(DropFirstLine(workout_text, DayNames), {"[runner]", "[zap]"}))

\* MLPlanParser._parse_workout: found is false for the result None
_parse_workout(workout_text) ==
    LET days == {i \in 1..Len(workout_text) : workout_text[i] \in DayNames}
    IN IF days = {}
       THEN [found |-> FALSE, raised |-> FALSE,
             workout |-> [day |-> None, workout_type |-> None, description |-> <<>>, distance |-> <<>>]]
       ELSE LET workout_type == _classify_workout_type(workout_text)
                extracted == _extract_distance(workout_text, workout_type)
                distance == extracted.distance
            IN [found |-> TRUE, raised |-> extracted.raised,
                workout |-> [day |-> workout_text[CHOOSE i \in days : \A j \in days : i <= j],
                             workout_type |-> workout_type,
                             description |-> _extract_description(workout_text),
                             distance |-> IF distance = <<>> \/ distance = <<0>>
                                          THEN <<>> ELSE distance]]

\* MLPlanParser._parse_week
_parse_week(week_text, week_num) ==
    LET workout_texts == _split_into_workouts(week_text)
        parsed == [k \in 1..Len(workout_texts) |-> _parse_workout(workout_texts[k])]
        kept == SelectSeq(parsed, LAMBDA w : w.found)
    IN [raised |-> \E k \in 1..Len(parsed) : parsed[k].raised,
        week |-> [week_number |-> week_num,
                  total_distance |-> _extract_total_distance(week_text),
                  workouts |-> [k \in 1..Len(kept) |-> kept[k].workout]]]

\* the concatenation of the weeks' workouts
RECURSIVE Extend(_, _)
Extend(week_data, k) ==
    IF k > Len(week_data) THEN <<>> ELSE week_data[k].workouts \o Extend(week_data, k + 1)

\* parse_plan with duration_weeks counted from the chart characters of the text
parse_plan_CountsCharts(plan_text, cuts, now) ==
    LET weeks == _split_into_weeks(plan_text)
        parsed == [k \in 1..Len(weeks) |-> _parse_week(weeks[k], k)]
        week_data == [k \in 1..Len(weeks) |-> parsed[k].week]
    IN [raised |-> \E k \in 1..Len(parsed) : parsed[k].raised,
        structured_plan |-> [plan_title |-> _extract_plan_title(plan_text, cuts),
                             start_date |-> now,
                             duration_weeks |-> Len(SelectSeq(plan_text, LAMBDA token : token = Chart)),
                             weekly_structure |-> week_data,
                             workouts |-> Extend(week_data, 1)]]

\* MLPlanParser.parse_plan
parse_plan(plan_text, cuts, now) ==
    LET weeks == _split_into_weeks(plan_text)
        parsed == [k \in 1..Len(weeks) |-> _parse_week(weeks[k], k)]
        week_data == [k \in 1..Len(weeks) |-> parsed[k].week]
    IN [raised |-> \E k \in 1..Len(parsed) : parsed[k].raised,
        structured_plan |-> [plan_title |-> _extract_plan_title(plan_text, cuts),
                             start_date |-> now,
                             duration_weeks |-> Len(weeks),
                             weekly_structure |-> week_data,
                             workouts |-> Extend(week_data, 1)]]

NoStructuredPlan ==
    [plan_title |-> <<>>, start_date |-> 0, duration_weeks |-> 0,
     weekly_structure |-> <<>>, workouts |-> <<>>]

\* no call of parse_plan
NoParse ==
    [pc |-> "idle", plan_text |-> <<>>, cuts |-> {}, raised |-> FALSE,
     structured_plan |-> NoStructuredPlan]

\* ------------------------------------------------------- verify_parsed_plan
\* a distance string float() rejects
NotANumber == <<-1>>

\* a workout dictionary; <<>> is a description or distance that is missing, None or ""
VWorkout(day, workout_type, description, distance) ==
    [day |-> day, workout_type |-> workout_type, description |-> description,
     distance |-> distance]

\* the workouts handed to verify_parsed_plan
VWorkouts ==
    { VWorkout("Monday", "Easy Run", <<"easy", "recovery", "steady">>, <<>>),
      VWorkout("Monday", "Easy Run", <<"easy">>, <<650>>),
      VWorkout("Sunday", "Intervals", <<"intervals", "repeats", "sprints", "fartlek">>, <<110>>),
      VWorkout("Sunday", "Intervals", <<"intervals">>, <<5000>>),
      VWorkout("Sunday", "Intervals", <<"repeats">>, NotANumber),
      VWorkout("Sunday", "Long Run", <<"long">>, <<2000>>),
      VWorkout("Monday", "Tempo", <<"Monday">>, <<>>),
      VWorkout(Absent, "Easy Run", <<"easy", "recovery", "steady">>, <<>>),
      VWorkout("Monday", "Easy Run", <<>>, <<650>>) }

VerifyLengths == {0, 1, 2}

\* the weeks: their "workouts" lists
VWeeks == UNION {[1..n -> VWorkouts] : n \in VerifyLengths}

\* the plans: weekly_structure, and whether the key is there at all
VPlans ==
    [has_weekly_structure : {TRUE},
     weekly_structure : UNION {[1..n -> VWeeks] : n \in VerifyLengths}]
    \cup {[has_weekly_structure |-> FALSE, weekly_structure |-> <<>>]}

\* a value that Python takes as false: missing, None or the empty string
Falsy(value) == value \in {Absent, None, ""}

\* pattern_type.replace('_', ' ')
PatternName(key) ==
    CASE key = "easy_run" -> "easy run"
      [] key = "intervals" -> "intervals"
      [] key = "long_run" -> "long run"

\* workout_type.lower() on the type names in use
LowerType(workout_type) ==
    CASE workout_type = "Easy Run" -> "easy run"
      [] workout_type = "Intervals" -> "intervals"
      [] workout_type = "Long Run" -> "long run"
      [] OTHER -> Lower(workout_type)

\* pattern['distance_range'], in hundredths of a km
DistanceRange(key) ==
    CASE key = "easy_run" -> <<300, 1000>>
      [] key = "intervals" -> <<20, 200>>
      [] key = "long_run" -> <<1000, 3000>>

\* the sum of a sequence of numbers
RECURSIVE Sum(_)
Sum(scores) == IF scores = <<>> THEN 0 ELSE Head(scores) + Sum(Tail(scores))

\* _calculate_workout_confidence adding its scores up instead of averaging them
_calculate_workout_confidence_Sum(workout) ==
    LET workout_type == LowerType(workout.workout_type)
        keys == {PatternKeys[k] : k \in DOMAIN PatternKeys}
        matched == SelectSeq(PatternKeys, LAMBDA key : PatternName(key) = workout_type)
        keyword_scores ==
            [k \in 1..Len(matched) |->
                (12 * Cardinality({kw \in Keywords(matched[k]) :
                                      \E i \in 1..Len(workout.description) :
                                          Lower(workout.description[i]) = kw}))
                    \div Cardinality(Keywords(matched[k]))]
        distance_scores ==
            IF workout.distance = <<>> THEN <<>>
            ELSE IF workout.distance = NotANumber THEN <<0>>
            ELSE IF workout_type \in keys
            THEN LET range == DistanceRange(PatternKey(workout_type))
                 IN IF range[1] <= workout.distance[1] /\ workout.distance[1] <= range[2]
                    THEN <<12>> ELSE <<6>>
            ELSE <<>>
        confidence_scores == keyword_scores \o distance_scores
    IN IF confidence_scores = <<>> THEN [num |-> 0, den |-> 1]
       ELSE [num |-> Sum(confidence_scores), den |-> 12]

\* MLPlanParser._calculate_workout_confidence, as a fraction [num, den]; the scores
\* appended are in twelfths: keyword_matches / len(keywords), then 1.0, 0.5 or 0.0
_calculate_workout_confidence(workout) ==
    LET workout_type == LowerType(workout.workout_type)
        keys == {PatternKeys[k] : k \in DOMAIN PatternKeys}
        \* pattern_type.replace('_', ' ') in workout_type, for the type names in use
        matched == SelectSeq(PatternKeys, LAMBDA key : PatternName(key) = workout_type)
        keyword_scores ==
            [k \in 1..Len(matched) |->
                (12 * Cardinality({kw \in Keywords(matched[k]) :
                                      \E i \in 1..Len(workout.description) :
                                          Lower(workout.description[i]) = kw}))
                    \div Cardinality(Keywords(matched[k]))]
        distance_scores ==
            IF workout.distance = <<>> THEN <<>>
            ELSE IF workout.distance = NotANumber THEN <<0>>
            ELSE IF workout_type \in keys
            THEN LET range == DistanceRange(PatternKey(workout_type))
                 IN IF range[1] <= workout.distance[1] /\ workout.distance[1] <= range[2]
                    THEN <<12>> ELSE <<6>>
            ELSE <<>>
        confidence_scores == keyword_scores \o distance_scores
    IN IF confidence_scores = <<>> THEN [num |-> 0, den |-> 1]
       ELSE [num |-> Sum(confidence_scores), den |-> 12 * Len(confidence_scores)]

\* the test of the required fields without the description
HasRequiredFields_NoDescription(workout) ==
    ~Falsy(workout.day) /\ ~Falsy(workout.workout_type)

\* all(workout.get(field) for field in ["day", "workout_type", "description"])
HasRequiredFields(workout) ==
    ~Falsy(workout.day) /\ ~Falsy(workout.workout_type) /\ workout.description # <<>>

\* the loop over one week's workouts from workout k on: the issues recorded and the
\* confidences appended, in 144ths
RECURSIVE VerifyWorkouts(_, _)
VerifyWorkouts(workouts, k) ==
    IF k > Len(workouts) THEN [issues |-> <<>>, scores |-> <<>>]
    ELSE LET rest == VerifyWorkouts(workouts, k + 1)
             confidence == _calculate_workout_confidence(workouts[k])
         IN IF ~HasRequiredFields(workouts[k])
            THEN [issues |-> <<"Missing required fields">> \o rest.issues, scores |-> rest.scores]
            ELSE [issues |-> rest.issues,
                  scores |-> <<confidence.num * (144 \div confidence.den)>> \o rest.scores]

\* the loop over weekly_structure from week k on
RECURSIVE VerifyWeeks(_, _)
VerifyWeeks(weekly_structure, k) ==
    IF k > Len(weekly_structure) THEN [issues |-> <<>>, scores |-> <<>>]
    ELSE LET rest == VerifyWeeks(weekly_structure, k + 1)
             week == VerifyWorkouts(weekly_structure[k], 1)
         IN IF weekly_structure[k] = <<>>
            THEN [issues |-> <<"Week has no workouts">> \o rest.issues, scores |-> rest.scores]
            ELSE [issues |-> week.issues \o rest.issues, scores |-> week.scores \o rest.scores]

\* a fraction exceeds 0.7
ExceedsThreshold(fraction) == 10 * fraction.num > 7 * fraction.den

\* verify_parsed_plan without its test of weekly_structure
verify_parsed_plan_NoStructureCheck(parsed_plan) ==
    LET loop == VerifyWeeks(parsed_plan.weekly_structure, 1)
        mean == [num |-> Sum(loop.scores), den |-> 144 * Len(loop.scores)]
    IN IF loop.scores # <<>>
       THEN [is_valid |-> ExceedsThreshold(mean), confidence_score |-> mean,
             issues |-> loop.issues]
       ELSE [is_valid |-> TRUE, confidence_score |-> [num |-> 0, den |-> 1],
             issues |-> loop.issues]

\* MLPlanParser.verify_parsed_plan; confidence_score is a fraction [num, den]
verify_parsed_plan(parsed_plan) ==
    IF ~parsed_plan.has_weekly_structure \/ parsed_plan.weekly_structure = <<>>
    THEN [is_valid |-> FALSE, confidence_score |-> [num |-> 0, den |-> 1],
          issues |-> <<"Missing weekly structure">>]
    ELSE LET loop == VerifyWeeks(parsed_plan.weekly_structure, 1)
             mean == [num |-> Sum(loop.scores), den |-> 144 * Len(loop.scores)]
         IN IF loop.scores # <<>>
            THEN [is_valid |-> ExceedsThreshold(mean), confidence_score |-> mean,
                  issues |-> loop.issues]
            ELSE [is_valid |-> TRUE, confidence_score |-> [num |-> 0, den |-> 1],
                  issues |-> loop.issues]

NoVerification == [is_valid |-> TRUE, confidence_score |-> [num |-> 0, den |-> 1], issues |-> <<>>]

\* no call of verify_parsed_plan
NoVerify ==
    [pc |-> "idle", parsed_plan |-> [has_weekly_structure |-> FALSE, weekly_structure |-> <<>>],
     verification |-> NoVerification]

\* --------------------------------------------------------- one workout text
\* the words of the workout texts
WorkoutAlphabet == {"Monday", "easy", "intervals", "long", "tempo", "12", "miles", "km", "m"}

WorkoutLengths == {0, 1, 2, 3, 4}

WorkoutTexts == UNION {[1..n -> WorkoutAlphabet] : n \in WorkoutLengths}

\* no parse of a workout text
NoWorkout ==
    [pc |-> "idle", workout_text |-> <<>>, workout_type |-> None, distance |-> <<>>,
     raised |-> FALSE,
     parsed |-> [found |-> FALSE, raised |-> FALSE,
                 workout |-> [day |-> None, workout_type |-> None, description |-> <<>>,
                              distance |-> <<>>]]]

\* ------------------------------------------------------ week segments
\* what follows the header of a week segment
WeekAlphabet == {"Monday", "Sunday", "easy", "12", "km", Newline}

WeekLengths == {0, 1, 2, 3, 4}

WeekBodies == UNION {[1..n -> WeekAlphabet] : n \in WeekLengths}

\* no parse of a week segment
NoWeek ==
    [pc |-> "idle", week_text |-> <<>>, workout_texts |-> <<>>, raised |-> FALSE,
     week |-> [week_number |-> 0, total_distance |-> 0, workouts |-> <<>>]]

\* ------------------------------------------------------ interval distances
\* An interval description is a list of groups "R x D<unit>" joined by "+"; the unit
\* is "m", "km" or "" (none).  Distances are in metres, <<>> is None.
Group(reps, dist, unit) == [reps |-> reps, dist |-> dist, unit |-> unit]

Groups == [reps : {4, 6}, dist : {1, 400, 800}, unit : {"m", "km", ""}]

DescriptionLengths == {0, 1, 2}

Descriptions == UNION {[1..n -> Groups] : n \in DescriptionLengths}

\* round(total_distance, 2) of a distance in km, kept in metres
Round2(metres) == ((metres + 5) \div 10) * 10

\* re.findall(r'(\d+)\s*x\s*(\d+)(?:m|km)', description): the groups with a unit
IntervalMatches(description) == SelectSeq(description, LAMBDA g : g.unit \in {"m", "km"})

\* the sum over the matches of reps * dist / 1000 km, 'm' being in every description
\* that has a match
RECURSIVE IntervalTotal(_)
IntervalTotal(matches) ==
    IF matches = <<>> THEN 0
    ELSE Head(matches).reps * Head(matches).dist + IntervalTotal(Tail(matches))

\* the distance generate_training_plan stores for a workout of type Intervals
GeneratedIntervalDistance(description) ==
    IF IntervalMatches(description) = <<>> THEN <<>>
    ELSE <<Round2(IntervalTotal(IntervalMatches(description)))>>

\* the loop of _calculate_interval_distance over the parts from part k on: raised when
\* float() rejects the distance, as for "1km" with its "m" removed
RECURSIVE IntervalParts(_, _)
IntervalParts(parts, k) ==
    IF k > Len(parts) THEN [raised |-> FALSE, total |-> 0]
    ELSE LET rest == IntervalParts(parts, k + 1)
         IN IF parts[k].unit = "m"
            THEN [raised |-> rest.raised, total |-> parts[k].reps * parts[k].dist + rest.total]
            ELSE IF parts[k].unit = "km"
            THEN [raised |-> TRUE, total |-> 0]
            ELSE rest

\* AICoachService._calculate_interval_distance
_calculate_interval_distance(interval_str) ==
    LET loop == IntervalParts(interval_str, 1)
    IN IF loop.raised \/ loop.total = 0 THEN <<>> ELSE <<loop.total>>

\* no interval description
NoInterval ==
    [pc |-> "idle", description |-> <<>>, generated |-> <<>>, calculated |-> <<>>]

NoPlan == [weekly_structure |-> <<>>]

\* the requests that may run generate_training_plan at the same time; get_session
\* gives each request a Session of its own
Sessions == {1, 2}

\* a request that has not entered generate_training_plan
IdleSession == [pc |-> "idle", user_id |-> 0, pending |-> <<>>]

NoSessions == [s \in Sessions |-> IdleSession]

vars == <<today, trainings, training_plans, calls, last, parsed_plans, reqs, parser, verifier, workout_call, interval_call, sessions, week_call>>

\* the state of the image-upload path
imageVars == <<parsed_plans, reqs>>

NoCall == [op |-> "none", user_id |-> 0, plan_data |-> NoPlan,
           start_date |-> 0, created |-> <<>>, ok |-> TRUE]

Call(op, user_id, plan_data, start_date, created, ok) ==
    [op |-> op, user_id |-> user_id, plan_data |-> plan_data, start_date |-> start_date,
     created |-> created, ok |-> ok]

Init ==
    /\ today = 0
    /\ trainings = EmptyBag
    /\ training_plans = EmptyBag
    /\ calls = 0
    /\ last = NoCall
    /\ parsed_plans = <<>>
    /\ reqs = [r \in 1..MaxCalls |-> IdleReq]
    /\ parser = NoParse
    /\ verifier = NoVerify
    /\ workout_call = NoWorkout
    /\ interval_call = NoInterval
    /\ sessions = NoSessions
    /\ week_call = NoWeek

\* PlanParserService.save_parsed_plan(plan_data, user_id, db): the TrainingPlan row is
\* committed first; the Training rows are committed together after the loop, or rolled
\* back together when the loop raises
save_parsed_plan(user_id, plan_data) ==
    LET batch == SaveLoop(Flatten(plan_data), 1, user_id, today, EmptyBatch) IN
    /\ calls < MaxCalls
    /\ calls' = calls + 1
    /\ training_plans' = training_plans (+) SetToBag({user_id})
    /\ trainings' = IF batch.raised THEN trainings ELSE trainings (+) SeqToBag(batch.pending)
    /\ last' = Call("save_parsed_plan", user_id, plan_data, today,
                    IF batch.raised THEN <<>> ELSE batch.created, ~batch.raised)
    /\ UNCHANGED <<today, imageVars, parser, verifier, workout_call, interval_call, sessions, week_call>>

\* clear_existing_plans without the test of plan_source: all rows of the user go
clear_existing_plans_AnySource(rows, user_id) ==
    LET keep == {t \in BagToSet(rows) : t.user_id # user_id}
    IN [t \in keep |-> rows[t]]

\* the rows clear_existing_plans leaves: it deletes the user's rows whose plan_source
\* is coach_photo or ai_generated, and commits
clear_existing_plans(rows, user_id) ==
    LET keep == {t \in BagToSet(rows) :
                    ~(t.user_id = user_id /\ t.plan_source \in {"coach_photo", "ai_generated"})}
    IN [t \in keep |-> rows[t]]

\* what the chat-completion call of generate_training_plan yields
Responses ==
    [kind : {"no_client", "api_error", "bad_json"}, plan_data : {NoPlan}]
    \cup [kind : {"json"}, plan_data : Plans]

\* AICoachService.generate_training_plan(session, user_id, weeks)
generate_training_plan(user_id, response) ==
    /\ calls < MaxCalls
    /\ calls' = calls + 1
    /\ UNCHANGED <<today, training_plans, imageVars, parser, verifier, workout_call, interval_call, sessions, week_call>>
    /\ IF response.kind = "no_client"
       THEN /\ last' = Call("generate_training_plan", user_id, NoPlan, today, <<>>, FALSE)
            /\ UNCHANGED trainings
       ELSE LET cleared == clear_existing_plans(trainings, user_id) IN
            IF response.kind \in {"api_error", "bad_json"}
            THEN /\ trainings' = cleared
                 /\ last' = Call("generate_training_plan", user_id, NoPlan, today, <<>>, FALSE)
            ELSE LET batch == GenerateLoop(Flatten(response.plan_data), 1, cleared, user_id,
                                           today, EmptyBatch)
                 IN /\ trainings' = IF batch.raised THEN cleared
                                    ELSE cleared (+) SeqToBag(batch.pending)
                    /\ last' = Call("generate_training_plan", user_id, response.plan_data,
                                    today, IF batch.raised THEN <<>> ELSE batch.created,
                                    ~batch.raised)

\* crud.create_training(session, training): a row entered by hand, no plan_source
create_training(user_id, date) ==
    /\ calls < MaxCalls
    /\ calls' = calls + 1
    /\ trainings' = trainings (+) SetToBag({Training(user_id, date, "easy_run", "Easy Run", None)})
    /\ last' = NoCall
    /\ UNCHANGED <<today, training_plans, imageVars, parser, verifier, workout_call, interval_call, sessions, week_call>>

\* midnight passes
Tick ==
    /\ today < MaxToday
    /\ today' = today + 1
    /\ last' = NoCall
    /\ UNCHANGED <<trainings, training_plans, calls, imageVars, parser, verifier, workout_call, interval_call, sessions, week_call>>

\* the dates of hand-entered rows
ManualDates == {0, 6, 7}

Next ==
    \/ \E u \in Users, p \in Plans : save_parsed_plan(u, p)
    \/ \E u \in Users, r \in Responses : generate_training_plan(u, r)
    \/ \E u \in Users, d \in ManualDates : create_training(u, d)
    \/ Tick

Spec == Init /\ [][Next]_vars

\* ------------------------------------------------------- POST /upload-image
\* the response dictionary of parse_plan_from_image
PlanResponse(plan_data, cached) ==
    [cached |-> cached, duration_weeks |-> Len(GetWeeklyStructure(plan_data)),
     weekly_structure |-> GetWeeklyStructure(plan_data)]

\* an earlier request of this user with these bytes was answered with the plan
PriorSuccess(user_id, file) ==
    \E q \in DOMAIN reqs :
        reqs[q].status = 200 /\ reqs[q].user_id = user_id /\ reqs[q].file.data = file.data

\* parse_plan_from_image without the look-up of a stored plan: every upload goes to
\* the vision model
parse_plan_from_image_NoLookup(r, user_id, file, image_data) ==
    /\ reqs' = [reqs EXCEPT ![r] =
                   [IdleReq EXCEPT !.pc = "awaiting_vision", !.user_id = user_id, !.file = file,
                                   !.image_data = image_data, !.vision_calls = 1,
                                   !.prior_success = PriorSuccess(user_id, file)]]
    /\ UNCHANGED <<parsed_plans, trainings>>

\* PlanParserService.parse_plan_from_image up to its await: decode, hash, look the
\* stored plan up; a hit answers from storage, a miss issues the vision call
parse_plan_from_image(r, user_id, file, image_data) ==
    LET image_bytes == B64Decode(image_data)
        image_hash == _generate_image_hash(image_bytes)
        existing_plan == get_plan_by_image_hash(parsed_plans, user_id, image_hash)
        arrived == [IdleReq EXCEPT !.user_id = user_id, !.file = file,
                                   !.image_data = image_data, !.looked_up = TRUE,
                                   !.prior_success = PriorSuccess(user_id, file)]
    IN IF existing_plan # 0
       THEN /\ trainings' = create_training_workouts_from_plan(
                                parsed_plans[existing_plan], trainings, user_id)
            /\ reqs' = [reqs EXCEPT ![r] =
                           [arrived EXCEPT !.pc = "done", !.status = 200,
                               !.response = PlanResponse(parsed_plans[existing_plan].plan_data, TRUE)]]
            /\ UNCHANGED parsed_plans
       ELSE /\ reqs' = [reqs EXCEPT ![r] =
                           [arrived EXCEPT !.pc = "awaiting_vision", !.vision_calls = 1]]
            /\ UNCHANGED <<parsed_plans, trainings>>

\* the /upload-image route: validation, base64, the parser up to its await
upload_image(user_id, file) ==
    /\ calls < MaxCalls
    /\ calls' = calls + 1
    /\ UNCHANGED <<today, training_plans, last, parser, verifier, workout_call, interval_call, sessions, week_call>>
    /\ LET r == calls + 1
           checked == ValidateUpload(file)
       IN IF checked.status = 400
          THEN /\ reqs' = [reqs EXCEPT ![r] =
                              [IdleReq EXCEPT !.pc = "rejected", !.user_id = user_id,
                                              !.file = file, !.status = 400]]
               /\ UNCHANGED <<parsed_plans, trainings>>
          ELSE parse_plan_from_image(r, user_id, file, B64Encode(checked.image_data))

\* parse_plan_from_image repeating a failed vision call once more
vision_return_Retry(r, outcome) ==
    /\ reqs[r].pc = "awaiting_vision"
    /\ UNCHANGED <<today, training_plans, last, calls, parser, verifier, workout_call, interval_call, sessions, week_call>>
    /\ LET result == _analyze_plan_image(outcome)
           user_id == reqs[r].user_id
       IN IF result.raised
          THEN /\ reqs' = IF reqs[r].vision_calls < 2
                          THEN [reqs EXCEPT ![r].vision_calls = @ + 1]
                          ELSE [reqs EXCEPT ![r].pc = "failed", ![r].status = 500,
                                            ![r].outcome = outcome]
               /\ UNCHANGED <<parsed_plans, trainings>>
          ELSE LET stored_plan == store_parsed_plan(user_id, result.analysis,
                                      B64Decode(reqs[r].image_data), today)
               IN /\ parsed_plans' = Append(parsed_plans, stored_plan)
                  /\ trainings' = create_training_workouts_from_plan(stored_plan, trainings, user_id)
                  /\ reqs' = [reqs EXCEPT ![r].pc = "done", ![r].status = 200,
                                          ![r].outcome = outcome,
                                          ![r].response = PlanResponse(result.analysis, FALSE)]

\* parse_plan_from_image keeping a row of the upload whose vision call failed
vision_return_StoresFailure(r, outcome) ==
    /\ reqs[r].pc = "awaiting_vision"
    /\ UNCHANGED <<today, training_plans, last, calls, parser, verifier, workout_call, interval_call, sessions, week_call>>
    /\ LET result == _analyze_plan_image(outcome)
           user_id == reqs[r].user_id
           stored_plan == store_parsed_plan(user_id, result.analysis,
                                            B64Decode(reqs[r].image_data), today)
       IN IF result.raised
          THEN /\ reqs' = [reqs EXCEPT ![r].pc = "failed", ![r].status = 500,
                                       ![r].outcome = outcome]
               /\ parsed_plans' = Append(parsed_plans, stored_plan)
               /\ UNCHANGED trainings
          ELSE /\ parsed_plans' = Append(parsed_plans, stored_plan)
               /\ trainings' = create_training_workouts_from_plan(stored_plan, trainings, user_id)
               /\ reqs' = [reqs EXCEPT ![r].pc = "done", ![r].status = 200,
                                       ![r].outcome = outcome,
                                       ![r].response = PlanResponse(result.analysis, FALSE)]

\* the vision call of request r returns: parse_plan_from_image from its await on
vision_return(r, outcome) ==
    /\ reqs[r].pc = "awaiting_vision"
    /\ UNCHANGED <<today, training_plans, last, calls, parser, verifier, workout_call, interval_call, sessions, week_call>>
    /\ LET result == _analyze_plan_image(outcome)
           user_id == reqs[r].user_id
       IN IF result.raised
          THEN /\ reqs' = [reqs EXCEPT ![r].pc = "failed", ![r].status = 500,
                                       ![r].outcome = outcome]
               /\ UNCHANGED <<parsed_plans, trainings>>
          ELSE LET stored_plan == store_parsed_plan(user_id, result.analysis,
                                      B64Decode(reqs[r].image_data), today)
               IN /\ parsed_plans' = Append(parsed_plans, stored_plan)
                  /\ trainings' = create_training_workouts_from_plan(stored_plan, trainings, user_id)
                  /\ reqs' = [reqs EXCEPT ![r].pc = "done", ![r].status = 200,
                                          ![r].outcome = outcome,
                                          ![r].response = PlanResponse(result.analysis, FALSE)]

NextImg ==
    \/ \E user_id \in Users, file \in Files : upload_image(user_id, file)
    \/ \E r \in DOMAIN reqs, outcome \in VisionOutcomes : vision_return(r, outcome)
    \/ Tick

SpecImg == Init /\ [][NextImg]_vars

\* ------------------------------------------------------ MLPlanParser.parse_plan
\* a call of parse_plan with a text of at most MaxLen tokens
InitParse ==
    /\ today = 0
    /\ trainings = EmptyBag
    /\ training_plans = EmptyBag
    /\ calls = 0
    /\ last = NoCall
    /\ parsed_plans = <<>>
    /\ reqs = [r \in 1..MaxCalls |-> IdleReq]
    /\ parser \in {[NoParse EXCEPT !.pc = "called", !.plan_text = text] : text \in Texts}
    /\ verifier = NoVerify
    /\ workout_call = NoWorkout
    /\ interval_call = NoInterval
    /\ sessions = NoSessions
    /\ week_call = NoWeek

\* the call returns, the segmenter having cut the text into sentences
parse_plan_returns(cuts) ==
    /\ parser.pc = "called"
    /\ LET result == parse_plan(parser.plan_text, cuts, today)
       IN parser' = [parser EXCEPT !.pc = "returned", !.cuts = cuts,
                                   !.raised = result.raised,
                                   !.structured_plan = result.structured_plan]
    /\ UNCHANGED <<today, trainings, training_plans, calls, last, imageVars, verifier, workout_call, interval_call, sessions, week_call>>

NextParse == \E cuts \in SUBSET (1..(Len(parser.plan_text) - 1)) : parse_plan_returns(cuts)

SpecParse == InitParse /\ [][NextParse]_vars

\* ------------------------------------------------ MLPlanParser.verify_parsed_plan
\* a call of verify_parsed_plan with one of the plans
InitVerify ==
    /\ today = 0
    /\ trainings = EmptyBag
    /\ training_plans = EmptyBag
    /\ calls = 0
    /\ last = NoCall
    /\ parsed_plans = <<>>
    /\ reqs = [r \in 1..MaxCalls |-> IdleReq]
    /\ parser = NoParse
    /\ verifier \in {[NoVerify EXCEPT !.pc = "called", !.parsed_plan = plan] : plan \in VPlans}
    /\ workout_call = NoWorkout
    /\ interval_call = NoInterval
    /\ sessions = NoSessions
    /\ week_call = NoWeek

\* the call returns its verification
verify_parsed_plan_returns ==
    /\ verifier.pc = "called"
    /\ verifier' = [verifier EXCEPT !.pc = "returned",
                                    !.verification = verify_parsed_plan(verifier.parsed_plan)]
    /\ UNCHANGED <<today, trainings, training_plans, calls, last, imageVars, parser, workout_call, interval_call, sessions, week_call>>

NextVerify == verify_parsed_plan_returns

SpecVerify == InitVerify /\ [][NextVerify]_vars

\* ----------------------------------------------------- MLPlanParser._parse_workout
\* the parse of one workout text
InitWorkout ==
    /\ today = 0
    /\ trainings = EmptyBag
    /\ training_plans = EmptyBag
    /\ calls = 0
    /\ last = NoCall
    /\ parsed_plans = <<>>
    /\ reqs = [r \in 1..MaxCalls |-> IdleReq]
    /\ parser = NoParse
    /\ verifier = NoVerify
    /\ workout_call \in {[NoWorkout EXCEPT !.pc = "called", !.workout_text = text] :
                       text \in WorkoutTexts}
    /\ interval_call = NoInterval
    /\ sessions = NoSessions
    /\ week_call = NoWeek

\* the text is classified, its distance extracted, the workout dictionary built
parse_workout_returns ==
    /\ workout_call.pc = "called"
    /\ LET workout_type == _classify_workout_type(workout_call.workout_text)
           extracted == _extract_distance(workout_call.workout_text, workout_type)
       IN workout_call' = [workout_call EXCEPT !.pc = "returned", !.workout_type = workout_type,
                                     !.distance = extracted.distance,
                                     !.raised = extracted.raised,
                                     !.parsed = _parse_workout(workout_call.workout_text)]
    /\ UNCHANGED <<today, trainings, training_plans, calls, last, imageVars, parser, verifier, interval_call, sessions, week_call>>

NextWorkout == parse_workout_returns

SpecWorkout == InitWorkout /\ [][NextWorkout]_vars

\* ------------------------------------------- AICoachService interval distances
\* an interval description reaches the coach service
InitInterval ==
    /\ today = 0
    /\ trainings = EmptyBag
    /\ training_plans = EmptyBag
    /\ calls = 0
    /\ last = NoCall
    /\ parsed_plans = <<>>
    /\ reqs = [r \in 1..MaxCalls |-> IdleReq]
    /\ parser = NoParse
    /\ verifier = NoVerify
    /\ workout_call = NoWorkout
    /\ interval_call \in {[NoInterval EXCEPT !.pc = "called", !.description = description] :
                             description \in Descriptions}
    /\ sessions = NoSessions
    /\ week_call = NoWeek

\* the distance generate_training_plan stores for it as the description of an Intervals
\* workout, and the one _calculate_interval_distance returns for it
interval_distance_returns ==
    /\ interval_call.pc = "called"
    /\ interval_call' =
          [interval_call EXCEPT !.pc = "returned",
              !.generated = GeneratedIntervalDistance(interval_call.description),
              !.calculated = _calculate_interval_distance(interval_call.description)]
    /\ UNCHANGED <<today, trainings, training_plans, calls, last, imageVars, parser, verifier,
                   workout_call, sessions, week_call>>

NextInterval == interval_distance_returns

SpecInterval == InitInterval /\ [][NextInterval]_vars

\* ------------------------------------------------ MLPlanParser._parse_week
\* a call of _parse_week with a segment cut by _split_into_weeks: the header, then a body
InitWeek ==
    /\ today = 0
    /\ trainings = EmptyBag
    /\ training_plans = EmptyBag
    /\ calls = 0
    /\ last = NoCall
    /\ parsed_plans = <<>>
    /\ reqs = [r \in 1..MaxCalls |-> IdleReq]
    /\ parser = NoParse
    /\ verifier = NoVerify
    /\ workout_call = NoWorkout
    /\ interval_call = NoInterval
    /\ sessions = NoSessions
    /\ week_call \in {[NoWeek EXCEPT !.pc = "called", !.week_text = <<Chart, "Week", "1">> \o body] :
                       body \in WeekBodies}

\* the call returns: the workout texts it cut and the week it built
parse_week_returns ==
    /\ week_call.pc = "called"
    /\ LET result == _parse_week(week_call.week_text, 1)
       IN week_call' = [week_call EXCEPT !.pc = "returned",
                                        !.workout_texts = _split_into_workouts(week_call.week_text),
                                        !.raised = result.raised,
                                        !.week = result.week]
    /\ UNCHANGED <<today, trainings, training_plans, calls, last, imageVars, parser, verifier,
                   workout_call, interval_call, sessions>>

NextWeek == parse_week_returns

SpecWeek == InitWeek /\ [][NextWeek]_vars

\* ------------------------------------------ AICoachService.clear_existing_plans
\* the values of Training.plan_source
PlanSources == {"coach_photo", "ai_generated", "manual", None}

\* rows the table may hold: of either user, from either materializer or entered by hand
StoredRows == {Training(u, 0, "easy_run", "Easy Run", src) : u \in Users, src \in PlanSources}

\* a call of clear_existing_plans on a table of such rows, each stored once or twice
InitClear ==
    /\ today = 0
    /\ trainings \in {SetToBag(rows) : rows \in SUBSET StoredRows}
                     \cup {SetToBag(rows) (+) SetToBag(rows) : rows \in SUBSET StoredRows}
    /\ training_plans = EmptyBag
    /\ calls = 0
    /\ last = NoCall
    /\ parsed_plans = <<>>
    /\ reqs = [r \in 1..MaxCalls |-> IdleReq]
    /\ parser = NoParse
    /\ verifier = NoVerify
    /\ workout_call = NoWorkout
    /\ interval_call = NoInterval
    /\ sessions = NoSessions
    /\ week_call = NoWeek

\* the call returns, its deletions committed
clear_returns(user_id) ==
    /\ last.op = "none"
    /\ trainings' = clear_existing_plans(trainings, user_id)
    /\ last' = Call("clear_existing_plans", user_id, NoPlan, today, <<>>, TRUE)
    /\ UNCHANGED <<today, training_plans, calls, imageVars, parser, verifier, workout_call,
                   interval_call, sessions, week_call>>

NextClear == \E user_id \in Users : clear_returns(user_id)

SpecClear == InitClear /\ [][NextClear]_vars

\* ------------------------------- generate_training_plan on concurrent sessions
\* generate_training_plan up to the chat-completion call: without a client the call
\* returns at once, otherwise clear_existing_plans deletes and commits
generate_clear(s, user_id, has_client) ==
    /\ sessions[s].pc = "idle"
    /\ IF has_client
       THEN /\ trainings' = clear_existing_plans(trainings, user_id)
            /\ sessions' = [sessions EXCEPT ![s] = [pc |-> "cleared", user_id |-> user_id,
                                                     pending |-> <<>>]]
       ELSE /\ sessions' = [sessions EXCEPT ![s] = [pc |-> "failed", user_id |-> user_id,
                                                     pending |-> <<>>]]
            /\ UNCHANGED trainings
    /\ UNCHANGED <<today, training_plans, calls, last, imageVars, parser, verifier,
                   workout_call, interval_call, week_call>>

\* the chat-completion call and the loop over the workouts of its plan: each look-up reads
\* the committed rows and the rows this session has added; session.add writes nothing that
\* another session can read
generate_loop(s, response) ==
    /\ sessions[s].pc = "cleared"
    /\ response.kind # "no_client"
    /\ IF response.kind \in {"api_error", "bad_json"}
       THEN sessions' = [sessions EXCEPT ![s].pc = "failed"]
       ELSE LET batch == GenerateLoop(Flatten(response.plan_data), 1, trainings,
                                      sessions[s].user_id, today, EmptyBatch)
            IN sessions' = [sessions EXCEPT
                               ![s].pc = IF batch.raised THEN "failed" ELSE "checked",
                               ![s].pending = IF batch.raised THEN <<>> ELSE batch.pending]
    /\ UNCHANGED <<today, trainings, training_plans, calls, last, imageVars, parser, verifier,
                   workout_call, interval_call, week_call>>

\* session.commit() after the loop: the rows this session added reach the table
generate_commit(s) ==
    /\ sessions[s].pc = "checked"
    /\ trainings' = trainings (+) SeqToBag(sessions[s].pending)
    /\ sessions' = [sessions EXCEPT ![s].pc = "committed"]
    /\ UNCHANGED <<today, training_plans, calls, last, imageVars, parser, verifier,
                   workout_call, interval_call, week_call>>

NextRace ==
    \/ \E s \in Sessions, u \in Users, c \in BOOLEAN : generate_clear(s, u, c)
    \/ \E s \in Sessions, r \in Responses : generate_loop(s, r)
    \/ \E s \in Sessions : generate_commit(s)

SpecRace == Init /\ [][NextRace]_vars

\* --------------------------------------------- both producers of a parsed plan
\* a behaviour is either one call of the heuristic parser or a run of uploads
InitPlans == Init \/ InitParse

NextPlans ==
    \/ parser.pc = "idle" /\ NextImg
    \/ NextParse

SpecPlans == InitPlans /\ [][NextPlans]_vars

\* ---------------------------------------------------------------- materializer claims
Materializers == {"save_parsed_plan", "generate_training_plan"}

\* the last completed call was a materialization that committed its batch
Materialized == last.op \in Materializers /\ last.ok

UserRows(rows, user_id) == {t \in BagToSet(rows) : t.user_id = user_id}

\* number of stored rows of a user
UserCount(rows, user_id) ==
    BagCardinality([t \in UserRows(rows, user_id) |-> rows[t]])

HasRow(rows, user_id, date) == \E t \in BagToSet(rows) : t.user_id = user_id /\ t.date = date

\* weekday_offset of the specification: Monday -> 0 ... Sunday -> 6, on lower-cased names
WeekdayOffset(d) ==
    CASE d = "monday" -> 0 [] d = "tuesday" -> 1 [] d = "wednesday" -> 2
      [] d = "thursday" -> 3 [] d = "friday" -> 4 [] d = "saturday" -> 5 [] d = "sunday" -> 6

\* the day name a workout carries, after the "Monday" default of a missing key
DayOf(item) == Get(item.day, "Monday")

HasWeekdayName(item) == DayOf(item) # None /\ Lower(DayOf(item)) \in WeekdayNames

NonRestItems(plan_data) ==
    {k \in 1..Len(Flatten(plan_data)) : ~IsRest(Flatten(plan_data)[k])}

\* the rows the materialization loop found stored when it started: generate_training_plan
\* has cleared the user's plan rows by then
StoredBefore(call) ==
    IF call.op = "generate_training_plan"
    THEN clear_existing_plans(trainings, call.user_id)
    ELSE trainings

\* C1 (as claimed): materializing the same plan for the same user and start date twice in
\* a row, with no clearing in between, leaves the user's number of stored rows unchanged
\* by the second materialization.
C1_MaterializeTwiceSameCount ==
    [][(/\ last.op = "save_parsed_plan" /\ last.ok
        /\ last'.op = "save_parsed_plan" /\ last'.ok
        /\ last'.user_id = last.user_id
        /\ last'.plan_data = last.plan_data
        /\ last'.start_date = last.start_date)
       => UserCount(trainings', last.user_id) = UserCount(trainings, last.user_id)]_vars

\* C2 (as claimed): a materialization creates no record for a non-Rest workout whose
\* (user, workout_date) had a stored record when the loop started, and leaves every
\* stored record in place.
C2_ExistingDateSkipped ==
    [][(last'.op \in Materializers /\ last'.ok /\ calls' = calls + 1)
       => /\ \A k \in 1..Len(last'.created) :
                ~HasRow(StoredBefore(last'), last'.user_id, last'.created[k].date)
          /\ \A t \in BagToSet(StoredBefore(last')) :
                CopiesIn(t, trainings') >= CopiesIn(t, StoredBefore(last'))]_vars

\* C3: a Rest workout never produces a record: a materialization adds at most as many
\* rows as the plan has non-Rest workouts, and none of the rows it adds is a Rest row.
C3_RestNeverMaterialized ==
    [][(last'.op \in Materializers /\ calls' = calls + 1)
       => /\ ~last'.ok => \A t \in BagToSet(trainings') :
                             CopiesIn(t, trainings') <= CopiesIn(t, trainings)
          /\ last'.ok =>
                /\ BagCardinality(trainings') - BagCardinality(StoredBefore(last'))
                      <= Cardinality(NonRestItems(last'.plan_data))
                /\ \A t \in BagToSet(trainings') :
                      CopiesIn(t, trainings') > CopiesIn(t, StoredBefore(last'))
                          => Lower(t.title) # "rest"
                /\ \A k \in 1..Len(last'.created) :
                      Lower(Get(last'.created[k].workout_type, "")) # "rest"]_vars

C3_Witness ==
    /\ Materialized
    /\ \E k \in 1..Len(Flatten(last.plan_data)) :
          Flatten(last.plan_data)[k].workout_type = "REST"
    /\ Len(last.created) > 0
    /\ Len(last.created) < Len(Flatten(last.plan_data))

\* C4 (as claimed): every materialized workout is dated start_date + 7*w + weekday_offset,
\* w the 0-based position of its week in weekly_structure.
C4_DateByWeekIndex ==
    Materialized =>
        \A k \in 1..Len(last.created) :
            LET e == last.created[k] IN
            HasWeekdayName(e) =>
                e.date = last.start_date + 7 * e.w + WeekdayOffset(Lower(DayOf(e)))

\* C4 (amended): every materialized workout with a weekday name is dated
\* start_date + 7*(week_number - 1) + weekday_offset, week_number being the week's own
\* "week_number" value (1 when the key is missing), and a row of the user is stored
\* at that date.
C4_DateByWeekNumber ==
    Materialized =>
        \A k \in 1..Len(last.created) :
            LET e == last.created[k] IN
            HasWeekdayName(e) =>
                /\ e.date = last.start_date + 7 * (e.week_number - 1)
                                + WeekdayOffset(Lower(DayOf(e)))
                /\ HasRow(trainings, last.user_id, e.date)

C4_Witness ==
    /\ Materialized
    /\ \E k \in 1..Len(last.created) :
          /\ HasWeekdayName(last.created[k])
          /\ last.created[k].week_number - 1 # last.created[k].w
          /\ WeekdayOffset(Lower(DayOf(last.created[k]))) = 6

UnknownDay(item) == ~IsRest(item) /\ DayOf(item) # None /\ ~HasWeekdayName(item)

Arrives(r) == reqs[r].pc = "idle" /\ reqs'[r].pc # "idle"

\* C6: once an upload of a user has been answered with its plan, every later upload of
\* the same bytes by that user is answered from storage, cached = true, with no vision
\* call; and no vision call is issued by a request that has not looked the hash up.
C6_RepeatServedFromCache ==
    \A r \in DOMAIN reqs :
        /\ reqs[r].vision_calls > 0 => reqs[r].looked_up
        /\ reqs[r].prior_success =>
              /\ reqs[r].pc = "done" /\ reqs[r].status = 200
              /\ reqs[r].response.cached
              /\ reqs[r].vision_calls = 0

\* a repeat upload, days after the first, answered from storage
C6_Witness ==
    \E r \in DOMAIN reqs :
        /\ reqs[r].prior_success /\ reqs[r].response.cached
        /\ \E k \in DOMAIN parsed_plans :
              parsed_plans[k].user_id = reqs[r].user_id /\ parsed_plans[k].start_date < today

\* C7: the step that serves a repeat upload of the same bytes by the same user leaves
\* the table of workouts as it was: nothing is added, nothing duplicated.
C7_RepeatUploadAddsNoWorkout ==
    [][\A r \in DOMAIN reqs :
          (Arrives(r) /\ reqs'[r].prior_success) => trainings' = trainings]_vars

\* a repeat upload of a plan that put workouts in the table, served on a later day
C7_Witness ==
    \E r \in DOMAIN reqs :
        /\ reqs[r].prior_success /\ reqs[r].response.cached
        /\ Len(reqs[r].response.weekly_structure) > 0
        /\ \E t \in BagToSet(trainings) :
              t.user_id = reqs[r].user_id /\ t.plan_source = "coach_photo"
        /\ today > 0

Acceptable(file) ==
    /\ file.content_type # None /\ StartsWithImage(file.content_type)
    /\ file.size <= MaxUploadBytes
    /\ file.data.decodable

\* C9: an upload that is not an image content type of at most 10 MB whose bytes decode
\* as an image is answered 400 without reaching the parser, calling the vision model or
\* writing to storage, and a rejected request does nothing afterwards.
C9_OnlyValidImagesReachParser ==
    [][\A r \in DOMAIN reqs :
          /\ (Arrives(r) /\ ~Acceptable(reqs'[r].file)) =>
                /\ reqs'[r].pc = "rejected" /\ reqs'[r].status = 400
                /\ ~reqs'[r].looked_up /\ reqs'[r].vision_calls = 0
                /\ UNCHANGED <<parsed_plans, trainings>>
          /\ reqs[r].pc = "rejected" => reqs'[r] = reqs[r]]_vars

\* an upload of bytes that do not decode was rejected, a file of exactly 10 MB reached
\* the parser
C9_Witness ==
    \E r1, r2 \in DOMAIN reqs :
        /\ reqs[r1].pc = "rejected" /\ StartsWithImage(reqs[r1].file.content_type)
        /\ ~reqs[r1].file.data.decodable
        /\ reqs[r2].looked_up /\ reqs[r2].file.size = MaxUploadBytes

\* --------------------------------------------------------------------- C10
\* the text holds a week header: the chart character, "Week" and a number
HasWeekHeader(text) == \E i \in 1..Len(text) : HeaderAt(text, i)

\* every sentence of the segmented text holds a week-number token
NoFreeSentence(text, cuts) ==
    \A k \in 1..Len(Sentences(text, cuts, 1)) : HasWeekNumber(Sentences(text, cuts, 1)[k])

C11_DurationIsWeekCount ==
    /\ parser.pc = "returned" =>
          parser.structured_plan.duration_weeks = Len(parser.structured_plan.weekly_structure)
    /\ \A r \in DOMAIN reqs :
          reqs[r].status = 200 =>
              reqs[r].response.duration_weeks = Len(reqs[r].response.weekly_structure)

\* a text with two chart characters and one week header has been parsed
C11_Witness ==
    /\ parser.pc = "returned"
    /\ parser.plan_text = <<Chart, Chart, "Week", "1">>
    /\ parser.structured_plan.duration_weeks = 1

\* --------------------------------------------------------------- C12, C13
\* the workouts of a plan, week after week
RECURSIVE AllWorkouts(_, _)
AllWorkouts(weekly_structure, k) ==
    IF k > Len(weekly_structure) THEN <<>>
    ELSE weekly_structure[k] \o AllWorkouts(weekly_structure, k + 1)

\* the plan has workouts and each lacks day, workout_type or description
EveryWorkoutLacksField(parsed_plan) ==
    LET workouts == AllWorkouts(parsed_plan.weekly_structure, 1)
    IN workouts # <<>> /\ \A k \in 1..Len(workouts) : ~HasRequiredFields(workouts[k])

\* C12: for a plan with a non-empty weekly_structure, is_valid is true exactly when the
\* confidence score exceeds 0.7, and a plan whose every workout lacks day, workout_type
\* or description is invalid with confidence 0.0.
C12_ValidIffAboveThreshold ==
    (verifier.pc = "returned" /\ verifier.parsed_plan.weekly_structure # <<>>) =>
        /\ verifier.verification.is_valid
              <=> ExceedsThreshold(verifier.verification.confidence_score)
        /\ EveryWorkoutLacksField(verifier.parsed_plan) =>
              /\ ~verifier.verification.is_valid
              /\ verifier.verification.confidence_score.num = 0

\* C13: a plan whose weekly_structure is empty or absent is reported invalid, with
\* confidence score 0.0 and at least one issue.
C13_EmptyStructureInvalid ==
    (verifier.pc = "returned" /\ verifier.parsed_plan.weekly_structure = <<>>) =>
        /\ ~verifier.verification.is_valid
        /\ verifier.verification.confidence_score.num = 0
        /\ Len(verifier.verification.issues) >= 1

\* a plan without the key weekly_structure has been verified
C13_Witness ==
    /\ verifier.pc = "returned"
    /\ ~verifier.parsed_plan.has_weekly_structure
    /\ verifier.verification.issues = <<"Missing weekly structure">>

\* --------------------------------------------------------------------- C14
\* the similarity of the text to every type's keywords is zero
ZeroSimilarity(text) == \A k \in DOMAIN PatternKeys : Overlap(text, PatternKeys[k]) = 0

\* C14: a workout text whose similarity to every type's keyword set is zero is
\* classified "Easy Run".
C14_ZeroSimilarityIsEasyRun ==
    (workout_call.pc = "returned" /\ ZeroSimilarity(workout_call.workout_text)) =>
        workout_call.workout_type = "Easy Run"

\* a text with a distance and no keyword has been classified
C14_Witness ==
    /\ workout_call.pc = "returned"
    /\ workout_call.workout_text = <<"Monday", "tempo", "12", "km">>
    /\ workout_call.workout_type = "Easy Run"

\* --------------------------------------------------------------------- C15
\* the description is made of groups "R x Dm" only, and of one at least
MetreGroups(description) ==
    description # <<>> /\ \A k \in 1..Len(description) : description[k].unit = "m"

\* the warm-up and cool-down allowance of 6.4 km
Allowance == 6400

\* C15: for a description made of groups "R x Dm" the session distance is the sum of
\* R * D / 1000 km over the groups plus 6.4 km, added once.
C15_IntervalSumPlusAllowance ==
    (interval_call.pc = "returned" /\ MetreGroups(interval_call.description)) =>
        /\ interval_call.generated = <<IntervalTotal(interval_call.description) + Allowance>>
        /\ interval_call.calculated = <<IntervalTotal(interval_call.description) + Allowance>>

\* --------------------------------------------------------------------- C16
\* the text has the form "Nm easy"
PlainMileage(text) ==
    Len(text) = 3 /\ IsNumber(text[1]) /\ text[2] = "m" /\ text[3] = "easy"

\* N miles in hundredths of a km, N * 1.60934 rounded to two places
MilesInKm(n) == (n * 160934 + 500) \div 1000

\* C16: for a text of the form "Nm easy" the extracted distance is N * 1.60934 km, N
\* being taken as miles.
C16_PlainMileageIsMiles ==
    (workout_call.pc = "returned" /\ PlainMileage(workout_call.workout_text)) =>
        workout_call.distance = <<MilesInKm(NumberOf(workout_call.workout_text[1]))>>

\* --------------------------------------------------------------------- C17
\* number of stored rows of a user on a date
RowsOn(rows, user_id, date) ==
    BagCardinality([t \in {r \in BagToSet(rows) : r.user_id = user_id /\ r.date = date}
                      |-> rows[t]])

\* session s added a row for the user on the date and committed it
CommittedOn(s, user_id, date) ==
    /\ sessions[s].pc = "committed"
    /\ sessions[s].user_id = user_id
    /\ \E k \in 1..Len(sessions[s].pending) : sessions[s].pending[k].date = date

VisionFailed(r) == reqs[r].outcome.kind \in {"api_error", "bad_json"}

\* C18: a parse_plan_from_image call makes at most one vision call; when that call has
\* failed the request is answered with the failure (status 500) after that one call.
C18_OneVisionCallNoRetry ==
    \A r \in DOMAIN reqs :
        /\ reqs[r].vision_calls <= 1
        /\ VisionFailed(r) =>
              reqs[r].pc = "failed" /\ reqs[r].status = 500 /\ reqs[r].vision_calls = 1

\* a request whose one vision call raised and that was answered with 500
C18_Witness ==
    \E r \in DOMAIN reqs :
        /\ reqs[r].outcome.kind = "api_error"
        /\ reqs[r].pc = "failed" /\ reqs[r].vision_calls = 1

\* --------------------------------------------------------------------- C19
\* the requests whose vision call returned a JSON document
VisionSucceeded == {r \in DOMAIN reqs : reqs[r].outcome.kind = "json"}

\* request q carries the image of request r for the same user
SameUpload(r, q) ==
    reqs[q].user_id = reqs[r].user_id /\ reqs[q].image_data = reqs[r].image_data

\* C19: a failed vision call stores nothing. The table of parsed plans has one row per
\* vision call that succeeded and none for a failed one; while no upload has succeeded
\* there is no workout record either; and an upload of the same image by the same user
\* that arrives after the failure, no upload of that image having succeeded, goes to the
\* vision model again (a cache miss).
C19_FailedCallStoresNothing ==
    /\ Len(parsed_plans) = Cardinality(VisionSucceeded)
    /\ VisionSucceeded = {} => trainings = EmptyBag
    /\ \A r, q \in DOMAIN reqs :
          (/\ r < q /\ VisionFailed(r) /\ SameUpload(r, q) /\ reqs[q].looked_up
           /\ ~\E p \in VisionSucceeded : SameUpload(r, p))
          => reqs[q].vision_calls = 1

\* the same image uploaded again after its vision call failed: a cache miss once more
C19_Witness ==
    /\ VisionFailed(1) /\ reqs[1].pc = "failed"
    /\ SameUpload(1, 2) /\ reqs[2].looked_up /\ reqs[2].vision_calls = 1
    /\ parsed_plans = <<>> /\ trainings = EmptyBag

\* --------------------------------------------------------------------- C20
\* the positions of the weekday tokens of a text
DayPositions(text) == {i \in 1..Len(text) : text[i] \in DayNames}

\* the span from the weekday token at i up to the next weekday token or the end
SpanFrom(text, i) ==
    LET later == {j \in DayPositions(text) : j > i}
    IN SubSeq(text, i, IF later = {} THEN Len(text)
                       ELSE (CHOOSE j \in later : \A l \in later : j <= l) - 1)

\* the spans of a week segment, in order
RECURSIVE SpansFrom(_, _)
SpansFrom(text, i) ==
    IF i > Len(text) THEN <<>>
    ELSE IF text[i] \in DayNames THEN <<SpanFrom(text, i)>> \o SpansFrom(text, i + 1)
    ELSE SpansFrom(text, i + 1)

\* C20 (as claimed): the text parsed for each workout of a week segment is the whole span
\* from its weekday token up to the next weekday token or the end of the segment, and
\* the workout's description is what _extract_description makes of that span.
C20_WorkoutTextIsWholeSpan ==
    week_call.pc = "returned" =>
        LET spans == SpansFrom(week_call.week_text, 1) IN
        /\ week_call.workout_texts = spans
        /\ Len(week_call.week.workouts) = Len(spans)
        /\ \A k \in 1..Len(spans) :
              week_call.week.workouts[k].description = _extract_description(spans[k])

\* --------------------------------------------------------------------- C21
\* no number of the text is followed by a unit of distance
NoExplicitDistance(text) ==
    /\ UnitMatch(text, {"miles", "mile", "Miles"}) = 0
    /\ UnitMatch(text, {"km", "KM"}) = 0
    /\ UnitMatch(text, {"m", "miles", "mile", "Miles", "Monday"}) = 0

\* C21 (as claimed): for a workout text with no explicit number-plus-unit distance the
\* extracted distance is the midpoint of the canonical range of the classified type
\* (6.5 km for Easy Run, 1.1 km for Intervals, 20 km for Long Run), never no distance.
C21_NoDistanceGivesMidpoint ==
    (workout_call.pc = "returned" /\ NoExplicitDistance(workout_call.workout_text)) =>
        workout_call.distance = <<RangeMidpoint(PatternKey(workout_call.workout_type))>>

\* --------------------------------------------------------------------- C22
\* the workout's type is one of the registry
InRegistry(workout) ==
    PatternKey(workout.workout_type) \in {PatternKeys[k] : k \in DOMAIN PatternKeys}

\* the fraction of the type's keywords found in the description, in twelfths
KeywordScore(workout) ==
    LET keywords == Keywords(PatternKey(workout.workout_type))
    IN (12 * Cardinality({kw \in keywords :
                            \E i \in 1..Len(workout.description) :
                                Lower(workout.description[i]) = kw}))
           \div Cardinality(keywords)

\* the distance score of the specification, in twelfths: 1.0 inside the type's range,
\* 0.5 outside, 0.0 for a distance that is not a number
DistanceScore(workout) ==
    LET range == DistanceRange(PatternKey(workout.workout_type))
    IN IF workout.distance = NotANumber THEN 0
       ELSE IF range[1] <= workout.distance[1] /\ workout.distance[1] <= range[2] THEN 12
       ELSE 6

\* the plan is one week of one workout, which has day, type of the registry,
\* description and a distance
OneScoredWorkout(parsed_plan) ==
    /\ Len(parsed_plan.weekly_structure) = 1
    /\ Len(parsed_plan.weekly_structure[1]) = 1
    /\ HasRequiredFields(parsed_plan.weekly_structure[1][1])
    /\ InRegistry(parsed_plan.weekly_structure[1][1])
    /\ parsed_plan.weekly_structure[1][1].distance # <<>>

\* C22 (as claimed): the confidence of a workout that has day, workout_type, description
\* and a distance is the mean of the keyword fraction and the distance score, for Easy
\* Run, Intervals and Long Run alike; seen on the plans made of one such workout, whose
\* confidence score is the workout's.
C22_ConfidenceIsMeanOfTwo ==
    (verifier.pc = "returned" /\ OneScoredWorkout(verifier.parsed_plan)) =>
        LET workout == verifier.parsed_plan.weekly_structure[1][1]
            score == verifier.verification.confidence_score
        IN 24 * score.num = (KeywordScore(workout) + DistanceScore(workout)) * score.den

\* --------------------------------------------------------------------- C23
\* C23: the confidence score verify_parsed_plan returns lies within [0, 1], whatever the
\* plan.
C23_ConfidenceWithinUnit ==
    verifier.pc = "returned" =>
        LET score == verifier.verification.confidence_score
        IN score.den > 0 /\ 0 <= score.num /\ score.num <= score.den

\* a plan of scored workouts whose confidence score is 1.0, the upper end
C23_Witness ==
    /\ verifier.pc = "returned"
    /\ verifier.parsed_plan.weekly_structure # <<>>
    /\ verifier.verification.confidence_score.num = verifier.verification.confidence_score.den
    /\ verifier.verification.confidence_score.den > 1

\* --------------------------------------------------------------------- C24
\* the number of entries of a sequence that satisfy a test
CountIf(seq, Test(_)) == Len(SelectSeq(seq, Test))

\* the weeks of the plan that have no workouts
EmptyWeeks(parsed_plan) ==
    CountIf(parsed_plan.weekly_structure, LAMBDA week : week = <<>>)

\* day, workout_type or description of the workout is missing, None or empty
LacksField(workout) ==
    Falsy(workout.day) \/ Falsy(workout.workout_type) \/ workout.description = <<>>

\* the workouts of the plan that lack day, workout_type or description
LackingWorkouts(parsed_plan) ==
    CountIf(AllWorkouts(parsed_plan.weekly_structure, 1), LAMBDA w : LacksField(w))

\* the workouts of the plan that have all three
ScoredWorkouts(parsed_plan) ==
    CountIf(AllWorkouts(parsed_plan.weekly_structure, 1), LAMBDA w : ~LacksField(w))

\* C24: for a plan with a non-empty weekly_structure there is exactly one issue per week
\* without workouts and one per workout lacking day, workout_type or description; the
\* confidence mean has one entry per workout that has all three and none for the others;
\* a plan of empty weeks only is valid, and an empty week beside scored workouts leaves
\* validity to their mean.
C24_IssuesAndMeanEntries ==
    (verifier.pc = "returned" /\ verifier.parsed_plan.weekly_structure # <<>>) =>
        LET plan == verifier.parsed_plan
            result == verifier.verification
        IN /\ CountIf(result.issues, LAMBDA issue : issue = "Week has no workouts")
                 = EmptyWeeks(plan)
           /\ CountIf(result.issues, LAMBDA issue : issue = "Missing required fields")
                 = LackingWorkouts(plan)
           /\ Len(result.issues) = EmptyWeeks(plan) + LackingWorkouts(plan)
           /\ ScoredWorkouts(plan) > 0 => result.confidence_score.den = 144 * ScoredWorkouts(plan)
           /\ ScoredWorkouts(plan) = 0 => result.confidence_score.num = 0
           /\ EmptyWeeks(plan) = Len(plan.weekly_structure) => result.is_valid
           /\ (EmptyWeeks(plan) > 0 /\ ScoredWorkouts(plan) > 0) =>
                  (result.is_valid <=> ExceedsThreshold(result.confidence_score))

\* a valid plan with an empty week, a workout lacking a field and one scored workout
C24_Witness ==
    /\ verifier.pc = "returned"
    /\ EmptyWeeks(verifier.parsed_plan) = 1
    /\ LackingWorkouts(verifier.parsed_plan) = 1
    /\ ScoredWorkouts(verifier.parsed_plan) = 1
    /\ Len(verifier.verification.issues) = 2
    /\ verifier.verification.is_valid

\* --------------------------------------------------------------------- C25
\* several types share the highest similarity to the text, and it is not zero
TiedAtTop(text) == Cardinality(MostSimilar(text)) >= 2 /\ ~ZeroSimilarity(text)

\* C25: when several types have the same highest non-zero similarity to a workout text,
\* the classification is the one of them declared first in the registry.
C25_TieGoesToFirstDeclared ==
    (workout_call.pc = "returned" /\ TiedAtTop(workout_call.workout_text)) =>
        workout_call.workout_type =
            TitleCase(PatternKeys[CHOOSE k \in MostSimilar(workout_call.workout_text) :
                                     \A j \in MostSimilar(workout_call.workout_text) : k <= j])

\* a text as similar to easy_run as to intervals, classified Easy Run
C25_Witness ==
    /\ workout_call.pc = "returned"
    /\ MostSimilar(workout_call.workout_text) = {1, 2}
    /\ Overlap(workout_call.workout_text, "intervals") > 0
    /\ workout_call.workout_type = "Easy Run"

\* --------------------------------------------------------------------- C26
\* every group of the description has a unit, and one at least is in km
HasKmGroup(description) ==
    /\ \A k \in 1..Len(description) : description[k].unit \in {"m", "km"}
    /\ \E k \in 1..Len(description) : description[k].unit = "km"

\* the sum of the groups in metres, a km length taken as written and an m length as metres
RECURSIVE TotalAsWritten(_)
TotalAsWritten(description) ==
    IF description = <<>> THEN 0
    ELSE Head(description).reps * Head(description).dist
             * (IF Head(description).unit = "km" THEN 1000 ELSE 1)
         + TotalAsWritten(Tail(description))

\* C26 (as claimed): a segment length with the suffix km counts as kilometres as written
\* and one with the suffix m as metres, so that "4 x 1km" contributes 4 km; the session
\* distance is the sum of the contributions, with or without the warm-up allowance.
C26_KmSuffixAsWritten ==
    (interval_call.pc = "returned" /\ HasKmGroup(interval_call.description)) =>
        LET total == TotalAsWritten(interval_call.description)
        IN /\ interval_call.generated \in {<<Round2(total)>>, <<Round2(total + Allowance)>>}
           /\ interval_call.calculated \in {<<total>>, <<total + Allowance>>}

C30_OnePlanAndCallPerImage ==
    /\ \A i, j \in DOMAIN parsed_plans :
          (/\ parsed_plans[i].user_id = parsed_plans[j].user_id
           /\ parsed_plans[i].original_image_hash = parsed_plans[j].original_image_hash)
          => i = j
    /\ \A r, q \in DOMAIN reqs :
          (/\ reqs[r].status = 200 /\ reqs[q].status = 200 /\ SameUpload(r, q)
           /\ reqs[r].vision_calls = 1 /\ reqs[q].vision_calls = 1)
          => r = q

====
